---- MODULE Spec2Model ----
(***************************************************************************)
(* Job queue and worker coordination of the translation bot                *)
(* (src/src/utils.py, src/src/handlers.py, src/main.py).                   *)
(*                                                                         *)
(* Scheduling model.  The program runs on one asyncio event loop: a task   *)
(* runs without interruption until it suspends at an await that really     *)
(* blocks.  QUEUE_LOCK is never held across a suspension (enqueue_job and  *)
(* remove_job_from_queue contain no blocking await inside the lock: put()  *)
(* on an unbounded asyncio.Queue returns at once), so acquiring it never   *)
(* suspends; JOB_QUEUE.get() suspends only when the queue is empty.  The   *)
(* suspension points are therefore message.answer / safe_download (network *)
(* I/O) and JOB_QUEUE.get() on an empty queue, and every action below is   *)
(* the code between two of them.                                           *)
(***************************************************************************)
EXTENDS Integers, Sequences, FiniteSets, TLC

\* ------------------------------------------------------------ bounds
NumUsers == 3          \* user ids are 1..NumUsers
MaxJobs == 3           \* submissions stop once JOB_COUNTER reaches MaxJobs
MaxFairJobs == 2       \* the same for the specification with fairness
MaxOpId == 4           \* job ids 1..MaxOpId in the lists the queue operations are applied to

\* ------------------------------------------------- program constants
TEXT_LIMIT == 10000
AUDIO_LIMIT_SEC == 300

Users == 1..NumUsers

\* mutant of Workers: main() starts a second worker task
Workers_two == {"worker", "worker2"}

\* asyncio.create_task(worker(bot)) is executed once
Workers == {"worker"}

\* ------------------------------------------------------------ messages
\* A message as far as the code inspects it: the content type, the text
\* (its length, its length after strip(), whether it starts with "/",
\* whether it holds a Cyrillic letter), the declared duration of a voice or
\* audio message (0 = absent) and, for a document, is_audio_document().
Text(n, stripped, slash, cyr) ==
    [kind |-> "text", len |-> n, stripped_len |-> stripped, slash |-> slash,
     cyr |-> cyr, duration |-> 0, audio_doc |-> FALSE]

Media(kind, duration, audio_doc) ==
    [kind |-> kind, len |-> 0, stripped_len |-> 0, slash |-> FALSE,
     cyr |-> FALSE, duration |-> duration, audio_doc |-> audio_doc]

Messages ==
    { Text(3, 3, FALSE, FALSE),
      Text(TEXT_LIMIT + 1, TEXT_LIMIT + 1, FALSE, FALSE),
      Text(2, 2, TRUE, FALSE),
      Media("voice", 10, FALSE),
      Media("document", 0, FALSE) }

NoJob == [job_id |-> 0, user_id |-> 0, message |-> Text(0, 0, FALSE, FALSE)]

\* process_job's locals while the worker holds no job.  out: the answer the
\* executor is about to send, or in the worker's except block what raised;
\* detected, effective_dst, lang_was_switched, translated: what the result
\* message is composed from; translate: how translate_text's call to the
\* translator ended ("none" = not called, "ok", "failed"); steps: the
\* collaborators the executor has called for this job, in the order of the
\* calls; probed: what ffprobe_duration returned, in tenths of a second (-1 =
\* not called or raised)
NoLocals ==
    [src |-> "auto", configured_dst |-> "en", out |-> "none",
     detected |-> "none", effective_dst |-> "none", lang_was_switched |-> FALSE,
     translate |-> "none", translated |-> "none", steps |-> <<>>, probed |-> -1]

\* no answer yet.  over_limit: whether the message handled was a text longer
\* than TEXT_LIMIT
NoReply ==
    [kind |-> "None", uid |-> 0, job_id |-> 0, pos |-> 0, depth |-> 0,
     over_limit |-> FALSE]

VARIABLES
    USER_SETTINGS,   \* utils.py:19   user -> [src, dst]
    USER_BUSY,       \* utils.py:22   user -> BOOLEAN (absent = FALSE)
    USER_QUEUED,     \* utils.py:25   user -> BOOLEAN (absent = FALSE)
    JOB_QUEUE,       \* utils.py:29   asyncio.Queue, FIFO
    PENDING,         \* utils.py:32
    JOB_COUNTER,     \* utils.py:35
    wpc,             \* worker task -> the await it is suspended in:
                     \*   "get" | "start" | "download" | "answer" | "except"
    wjob,            \* worker task -> the job it holds (job_id, user_id, message)
    wloc,            \* worker task -> the locals of process_job and its callees
    reply,           \* the outcome of the last handle_any_message and what it answered
                     \* (in SpecQueueOps: the last queue operation and what it returned)
    accepted,        \* history: job ids in the order enqueue_job assigned them
    started,         \* history: job ids in the order JOB_QUEUE.get() returned them
    finished,        \* history: job ids in the order the worker cleaned them up
    outcome          \* history, kept while the worker waits in get(): how process_job
                     \* ended in the iteration before: "returned" | "raised"; "none"
                     \* at the start and while the worker holds a job

vars == <<USER_SETTINGS, USER_BUSY, USER_QUEUED, JOB_QUEUE, PENDING, JOB_COUNTER,
          wpc, wjob, wloc, reply, accepted, started, finished, outcome>>

Min(S) == CHOOSE x \in S : \A y \in S : x <= y

Job(job_id, user_id, message) ==
    [job_id |-> job_id, user_id |-> user_id, message |-> message]

\* ------------------------------------------------------- utils.py: queue

\* 0-based index of the first entry of `pending` whose id is job_id, -1 if none:
\* next((i for i, (jid, _, _) in enumerate(PENDING) if jid == job_id), -1)
index_of(pending, job_id) ==
    LET hits == {i \in 1..Len(pending) : pending[i].job_id = job_id}
    IN  IF hits = {} THEN -1 ELSE Min(hits) - 1

\* mutant of enqueue_job: the job is put on the queue but not appended to PENDING
enqueue_job_unlisted(counter, pending, queue, user_id, message) ==
    LET c   == counter + 1
        job == Job(c, user_id, message)
    IN  [counter |-> c, pending |-> pending, queue |-> Append(queue, job),
         job_id |-> c, pos |-> index_of(pending, c) + 1]

\* mutant of enqueue_job: PENDING.insert(0, job) instead of append
enqueue_job_prepend(counter, pending, queue, user_id, message) ==
    LET c   == counter + 1
        job == Job(c, user_id, message)
        p   == <<job>> \o pending
    IN  [counter |-> c, pending |-> p, queue |-> Append(queue, job),
         job_id |-> c, pos |-> index_of(p, c) + 1]

\* mutant of enqueue_job: the id is taken from the list length, not the counter
enqueue_job_reuse(counter, pending, queue, user_id, message) ==
    LET c   == Len(pending) + 1
        job == Job(c, user_id, message)
        p   == Append(pending, job)
    IN  [counter |-> counter + 1, pending |-> p, queue |-> Append(queue, job),
         job_id |-> c, pos |-> index_of(p, c) + 1]

\* mutant of enqueue_job: the 0-based index is returned as the position
enqueue_job_zero_based(counter, pending, queue, user_id, message) ==
    LET c   == counter + 1
        job == Job(c, user_id, message)
        p   == Append(pending, job)
    IN  [counter |-> c, pending |-> p, queue |-> Append(queue, job),
         job_id |-> c, pos |-> index_of(p, c)]

\* async with QUEUE_LOCK: JOB_COUNTER += 1; job_id = JOB_COUNTER;
\* PENDING.append(job); await JOB_QUEUE.put(job); return job_id, pos + 1
enqueue_job(counter, pending, queue, user_id, message) ==
    LET c   == counter + 1
        job == Job(c, user_id, message)
        p   == Append(pending, job)
    IN  [counter |-> c, pending |-> p, queue |-> Append(queue, job),
         job_id |-> c, pos |-> index_of(p, c) + 1]

\* mutant of queue_position: the index is returned as enumerate counts it
queue_position_zero_based(pending, job_id) == index_of(pending, job_id)

\* for i, (jid, _, _) in enumerate(PENDING): if jid == job_id: return i + 1
\* return -1
queue_position(pending, job_id) ==
    LET i == index_of(pending, job_id)
    IN  IF i = -1 THEN -1 ELSE i + 1

\* mutant of remove_job_from_queue: nothing is removed
remove_job_from_queue_noop(pending, job_id) == pending

\* mutant of remove_job_from_queue: PENDING.pop() drops the last entry
remove_job_from_queue_last(pending, job_id) ==
    IF pending = <<>> THEN pending ELSE SubSeq(pending, 1, Len(pending) - 1)

\* mutant of remove_job_from_queue: the entry is overwritten with the last
\* one, which is then popped (removal without shifting)
remove_job_from_queue_swap_pop(pending, job_id) ==
    LET i == index_of(pending, job_id)
        n == Len(pending)
    IN  IF i = -1 THEN pending
        ELSE SubSeq([pending EXCEPT ![i + 1] = pending[n]], 1, n - 1)

\* PENDING.pop(i) for the first i whose id is job_id; nothing if there is none
remove_job_from_queue(pending, job_id) ==
    LET i == index_of(pending, job_id)
    IN  IF i = -1 THEN pending
        ELSE SubSeq(pending, 1, i) \o SubSeq(pending, i + 2, Len(pending))

\* ------------------------------------------- translation.py and text.py

\* return "en" if lang_code == "ru" else "ru"
pick_auto_dst_from_lang(lang_code) == IF lang_code = "ru" THEN "en" ELSE "ru"

\* mutant of translate_text: the translator's exception is not caught
translate_text_raising(text, src, dst, translate_ok) ==
    [raised |-> ~translate_ok,
     status |-> IF translate_ok THEN "ok" ELSE "failed",
     text   |-> IF translate_ok THEN "translation" ELSE "none"]

\* translate_text: translator.translate(text) inside try/except Exception.
\* translate_ok: whether the import and the translator returned or raised.
\* raised: whether translate_text itself raises (it never does).
translate_text(text, src, dst, translate_ok) ==
    [raised |-> FALSE,
     status |-> IF translate_ok THEN "ok" ELSE "failed",
     text   |-> IF translate_ok THEN "translation" ELSE text]

\* mutant of process_text_message: the target is taken from the settings
process_text_message_configured(message, src_lang, configured_dst, translate_ok) ==
    LET detected_lang == IF src_lang = "auto"
                         THEN (IF message.cyr THEN "ru" ELSE "en")
                         ELSE src_lang
        t == translate_text("text", "auto", configured_dst, translate_ok)
    IN  [raised |-> t.raised, translate |-> t.status, translated |-> t.text,
         detected_lang |-> detected_lang, effective_dst |-> configured_dst,
         lang_was_switched |-> FALSE]

\* process_text_message: (translated, detected_lang, effective_dst,
\* lang_was_switched); raised: an exception of translate_text passes through
process_text_message(message, src_lang, configured_dst, translate_ok) ==
    LET detected_lang == IF src_lang = "auto"
                         THEN (IF message.cyr THEN "ru" ELSE "en")
                         ELSE src_lang
        effective_dst == pick_auto_dst_from_lang(detected_lang)
        t == translate_text("text", "auto", effective_dst, translate_ok)
    IN  [raised |-> t.raised, translate |-> t.status, translated |-> t.text,
         detected_lang |-> detected_lang, effective_dst |-> effective_dst,
         lang_was_switched |-> (configured_dst # effective_dst)]

\* --------------------------------------------------------------- Init
\* user_settings() creates {"src": "auto", "dst": "en"} on first use, so an
\* absent entry and the default entry are the same to every reader
DefaultSettings == [src |-> "auto", dst |-> "en"]

Init ==
    /\ USER_SETTINGS = [u \in Users |-> DefaultSettings]
    /\ USER_BUSY = [u \in Users |-> FALSE]
    /\ USER_QUEUED = [u \in Users |-> FALSE]
    /\ JOB_QUEUE = <<>>
    /\ PENDING = <<>>
    /\ JOB_COUNTER = 0
    /\ wpc = [w \in Workers |-> "get"]
    /\ wjob = [w \in Workers |-> NoJob]
    /\ wloc = [w \in Workers |-> NoLocals]
    /\ reply = NoReply
    /\ accepted = <<>>
    /\ started = <<>>
    /\ finished = <<>>
    /\ outcome = "none"

\* ------------------------------------------- handlers.py: admission

\* mutant of IsActive: the admission check forgets the queued flag
IsActive_busy_only(uid) == USER_BUSY[uid]

\* mutant of IsActive: the admission check forgets the busy flag
IsActive_queued_only(uid) == USER_QUEUED[uid]

\* if USER_BUSY.get(uid) or USER_QUEUED.get(uid):
IsActive(uid) == USER_BUSY[uid] \/ USER_QUEUED[uid]

\* whether message is a text longer than TEXT_LIMIT: what reply.over_limit
\* records about the message handled, whatever the handler did with it
TextTooLong(message) ==
    message.kind = "text" /\ ~message.slash /\ message.len > TEXT_LIMIT

\* mutant of OverTextLimit: the handler leaves the length check to the executor
OverTextLimit_never(message) == FALSE

\* if message.text and len(message.text) > TEXT_LIMIT:
OverTextLimit(message) == message.kind = "text" /\ message.len > TEXT_LIMIT

\* if message.text and message.text.startswith("/"): return
IsCommand(message) == message.kind = "text" /\ message.slash

\* mutant of QueuedAtSubmit: the handler enqueues without flagging the user
QueuedAtSubmit_skipped(queued, uid) == queued

\* USER_QUEUED[uid] = True
QueuedAtSubmit(queued, uid) == [queued EXCEPT ![uid] = TRUE]

\* for jid, u, _ in PENDING: if u == uid: my_job_id = jid; break   (0 = None)
my_job_id(pending, uid) ==
    LET mine == {i \in 1..Len(pending) : pending[i].user_id = uid}
    IN  IF mine = {} THEN 0 ELSE pending[Min(mine)].job_id

\* the answer to a user whose busy or queued flag is set: the position of the
\* user's job and the length of PENDING when the job is found, the generic
\* "already processing" text when it is not
already_active_reply(pending, uid, message) ==
    LET mine == my_job_id(pending, uid)
    IN  IF mine # 0
        THEN [kind |-> "AlreadyActive", uid |-> uid, job_id |-> mine,
              pos |-> queue_position(pending, mine),
              depth |-> Len(pending),
              over_limit |-> TextTooLong(message)]
        ELSE [NoReply EXCEPT !.kind = "AlreadyProcessing", !.uid = uid,
                             !.over_limit = TextTooLong(message)]

\* mutant of handle_any_message: the length check comes before the
\* busy/queued check
handle_any_message_limit_first(uid, message) ==
    IF IsCommand(message) THEN
        /\ reply' = [NoReply EXCEPT !.kind = "Ignored", !.uid = uid]
        /\ UNCHANGED <<USER_SETTINGS, USER_BUSY, USER_QUEUED, JOB_QUEUE, PENDING,
                       JOB_COUNTER, wpc, wjob, wloc, accepted, started, finished, outcome>>
    ELSE IF OverTextLimit(message) THEN
        /\ reply' = [NoReply EXCEPT !.kind = "LimitExceeded", !.uid = uid,
                                 !.over_limit = TextTooLong(message)]
        /\ UNCHANGED <<USER_SETTINGS, USER_BUSY, USER_QUEUED, JOB_QUEUE, PENDING,
                       JOB_COUNTER, wpc, wjob, wloc, accepted, started, finished, outcome>>
    ELSE IF IsActive(uid) THEN
        /\ reply' = already_active_reply(PENDING, uid, message)
        /\ UNCHANGED <<USER_SETTINGS, USER_BUSY, USER_QUEUED, JOB_QUEUE, PENDING,
                       JOB_COUNTER, wpc, wjob, wloc, accepted, started, finished, outcome>>
    ELSE
        LET e == enqueue_job(JOB_COUNTER, PENDING, JOB_QUEUE, uid, message)
        IN  /\ USER_QUEUED' = QueuedAtSubmit(USER_QUEUED, uid)
            /\ JOB_COUNTER' = e.counter
            /\ PENDING' = e.pending
            /\ JOB_QUEUE' = e.queue
            /\ accepted' = Append(accepted, e.job_id)
            /\ reply' = [kind |-> "Accepted", uid |-> uid, job_id |-> e.job_id, pos |-> e.pos,
                         depth |-> Len(e.pending),
                         over_limit |-> TextTooLong(message)]
            /\ UNCHANGED <<USER_SETTINGS, USER_BUSY, wpc, wjob, wloc, started, finished,
                           outcome>>

\* One run of handle_any_message up to its message.answer; the answer's text
\* is computed before the handler suspends in it.
handle_any_message(uid, message) ==
    IF IsCommand(message) THEN
        /\ reply' = [NoReply EXCEPT !.kind = "Ignored", !.uid = uid]
        /\ UNCHANGED <<USER_SETTINGS, USER_BUSY, USER_QUEUED, JOB_QUEUE, PENDING,
                       JOB_COUNTER, wpc, wjob, wloc, accepted, started, finished, outcome>>
    ELSE IF IsActive(uid) THEN
        /\ reply' = already_active_reply(PENDING, uid, message)
        /\ UNCHANGED <<USER_SETTINGS, USER_BUSY, USER_QUEUED, JOB_QUEUE, PENDING,
                       JOB_COUNTER, wpc, wjob, wloc, accepted, started, finished, outcome>>
    ELSE IF OverTextLimit(message) THEN
        /\ reply' = [NoReply EXCEPT !.kind = "LimitExceeded", !.uid = uid,
                                 !.over_limit = TextTooLong(message)]
        /\ UNCHANGED <<USER_SETTINGS, USER_BUSY, USER_QUEUED, JOB_QUEUE, PENDING,
                       JOB_COUNTER, wpc, wjob, wloc, accepted, started, finished, outcome>>
    ELSE
        LET e == enqueue_job(JOB_COUNTER, PENDING, JOB_QUEUE, uid, message)
        IN  /\ USER_QUEUED' = QueuedAtSubmit(USER_QUEUED, uid)
            /\ JOB_COUNTER' = e.counter
            /\ PENDING' = e.pending
            /\ JOB_QUEUE' = e.queue
            /\ accepted' = Append(accepted, e.job_id)
            /\ reply' = [kind |-> "Accepted", uid |-> uid, job_id |-> e.job_id, pos |-> e.pos,
                         depth |-> Len(e.pending),
                         over_limit |-> TextTooLong(message)]
            /\ UNCHANGED <<USER_SETTINGS, USER_BUSY, wpc, wjob, wloc, started, finished,
                           outcome>>

\* ------------------------------------------------ handlers.py: worker

\* mutant of queue_get: a LifoQueue, the newest item first
queue_get_lifo(queue) ==
    [item |-> queue[Len(queue)], rest |-> SubSeq(queue, 1, Len(queue) - 1)]

\* mutant of queue_get: the head is read but stays in the queue
queue_get_peek(queue) == [item |-> Head(queue), rest |-> queue]

\* JOB_QUEUE.get() on a FIFO asyncio.Queue: the item and what is left
queue_get(queue) == [item |-> Head(queue), rest |-> Tail(queue)]

\* mutant of BusyAtDequeue: the worker does not mark the user busy
BusyAtDequeue_skipped(busy, user_id) == busy

\* USER_BUSY[user_id] = True
BusyAtDequeue(busy, user_id) == [busy EXCEPT ![user_id] = TRUE]

\* mutant of QueuedAtDequeue: the worker leaves the queued flag set
QueuedAtDequeue_kept(queued, user_id) == queued

\* USER_QUEUED[user_id] = False
QueuedAtDequeue(queued, user_id) == [queued EXCEPT ![user_id] = FALSE]

\* mutant of BusyAtCleanup: the cleanup leaves the busy flag set
BusyAtCleanup_skipped(busy, user_id) == busy

\* USER_BUSY[user_id] = False
BusyAtCleanup(busy, user_id) == [busy EXCEPT ![user_id] = FALSE]

\* job_id, user_id, message = JOB_QUEUE.get(); the two flag writes; then
\* process_job up to its first await (the "starting" notification): it reads
\* the user's settings into src and configured_dst.  `busy` is the value the
\* earlier part of the same step left.
Dequeue(w, busy) ==
    LET g == queue_get(JOB_QUEUE)
        job == g.item
    IN  /\ JOB_QUEUE' = g.rest
        /\ USER_BUSY' = BusyAtDequeue(busy, job.user_id)
        /\ USER_QUEUED' = QueuedAtDequeue(USER_QUEUED, job.user_id)
        /\ started' = Append(started, job.job_id)
        /\ wpc' = [wpc EXCEPT ![w] = "start"]
        /\ wjob' = [wjob EXCEPT ![w] = job]
        /\ wloc' = [wloc EXCEPT ![w] =
                        [NoLocals EXCEPT !.src = USER_SETTINGS[job.user_id].src,
                                         !.configured_dst = USER_SETTINGS[job.user_id].dst]]

\* the worker resumes from JOB_QUEUE.get(), which suspended on an empty queue
WorkerGet(w) ==
    /\ wpc[w] = "get"
    /\ JOB_QUEUE # <<>>
    /\ Dequeue(w, USER_BUSY)
    /\ outcome' = "none"
    /\ UNCHANGED <<USER_SETTINGS, PENDING, JOB_COUNTER, reply, accepted, finished>>

\* finally: remove_job_from_queue(job_id); USER_BUSY[user_id] = False;
\* task_done(); then the top of `while True`: get() returns the next job at
\* once when the queue is not empty, and suspends when it is empty
Finally(w) ==
    LET job  == wjob[w]
        busy == BusyAtCleanup(USER_BUSY, job.user_id)
    IN  /\ PENDING' = remove_job_from_queue(PENDING, job.job_id)
        /\ finished' = Append(finished, job.job_id)
        /\ IF JOB_QUEUE = <<>>
           THEN /\ USER_BUSY' = busy
                /\ wpc' = [wpc EXCEPT ![w] = "get"]
                /\ wjob' = [wjob EXCEPT ![w] = NoJob]
                /\ wloc' = [wloc EXCEPT ![w] = NoLocals]
                /\ UNCHANGED <<JOB_QUEUE, USER_QUEUED, started>>
           ELSE Dequeue(w, busy)

\* ------------------------------------------ handlers.py: the executor

\* what Whisper can report as the language: info.language or "auto"
DetectedLangs == {"ru", "en", "auto"}

\* ffprobe_duration(): a float of seconds, 0.0 when unknown; here in tenths
\* of a second: unknown, 10.0 s, half a second over the limit, a second over
ProbedTenths == {0, 100, AUDIO_LIMIT_SEC * 10 + 5, AUDIO_LIMIT_SEC * 10 + 10}

\* int(x) of a non-negative float given in tenths: the whole seconds
int_seconds(tenths) == tenths \div 10

\* transcribe_audio(wav_path, None if src == "auto" else src): Whisper
\* detects the language only when it is not told one
transcribe_langs(src) == IF src = "auto" THEN DetectedLangs ELSE {src}

\* process_audio_job: effective_dst = pick_auto_dst_from_lang(detected);
\* lang_was_switched = (configured_dst != effective_dst)
audio_target(detected, configured_dst) ==
    LET effective_dst == pick_auto_dst_from_lang(detected)
    IN  [effective_dst |-> effective_dst,
         lang_was_switched |-> (configured_dst # effective_dst)]

\* mutant of switch_dst: the effective target is stored whether or not the
\* language was switched
switch_dst_always(settings, user_id, configured_dst, effective_dst) ==
    [settings EXCEPT ![user_id].dst = effective_dst]

\* if lang_was_switched: settings["dst"] = effective_dst
switch_dst(settings, user_id, configured_dst, effective_dst) ==
    IF configured_dst # effective_dst
    THEN [settings EXCEPT ![user_id].dst = effective_dst]
    ELSE settings

\* the executor goes on to its next suspension point
Proceed(w, pc, out) ==
    /\ wpc' = [wpc EXCEPT ![w] = pc]
    /\ wloc' = [wloc EXCEPT ![w].out = out]

\* the same after the collaborator calls `steps`
ProceedAfter(w, pc, out, steps, probed) ==
    /\ wpc' = [wpc EXCEPT ![w] = pc]
    /\ wloc' = [wloc EXCEPT ![w].out = out, ![w].steps = steps, ![w].probed = probed]

\* the executor goes on to the message.answer that sends the result
Compose(w, out, detected, effective_dst, lang_was_switched, translate, translated, steps, probed) ==
    /\ wpc' = [wpc EXCEPT ![w] = "answer"]
    /\ wloc' = [wloc EXCEPT ![w].out = out,
                            ![w].detected = detected,
                            ![w].effective_dst = effective_dst,
                            ![w].lang_was_switched = lang_was_switched,
                            ![w].translate = translate,
                            ![w].translated = translated,
                            ![w].steps = steps,
                            ![w].probed = probed]

\* an exception of translate_text leaves the executor for the worker's except
TranslateRaised(w, steps, probed) ==
    /\ wpc' = [wpc EXCEPT ![w] = "except"]
    /\ wloc' = [wloc EXCEPT ![w].out = "translate_raised", ![w].translate = "failed",
                            ![w].steps = steps, ![w].probed = probed]

\* process_job resumes from the "starting" notification (whose failure is
\* swallowed) and runs to its next await: on the text path the final answer,
\* on the audio path safe_download or the "unsupported" answer
ProcessStart(w) ==
    LET job == wjob[w]
        m   == job.message
    IN  /\ wpc[w] = "start"
        /\ IF m.kind = "text" /\ ~m.slash
           THEN IF m.stripped_len > TEXT_LIMIT
                THEN Proceed(w, "answer", "text_limit") /\ UNCHANGED USER_SETTINGS
                ELSE \E translate_ok \in BOOLEAN :
                     LET r == process_text_message(m, wloc[w].src,
                                                   wloc[w].configured_dst, translate_ok)
                     IN  IF r.raised
                         THEN TranslateRaised(w, <<"translate">>, -1) /\ UNCHANGED USER_SETTINGS
                         ELSE
                         /\ USER_SETTINGS' =
                                IF r.lang_was_switched
                                THEN [USER_SETTINGS EXCEPT ![job.user_id].dst = r.effective_dst]
                                ELSE USER_SETTINGS
                         /\ Compose(w, "text_done", r.detected_lang, r.effective_dst,
                                    r.lang_was_switched, r.translate, r.translated,
                                    <<"translate">>, -1)
           ELSE IF m.kind \in {"voice", "audio"} \/ (m.kind = "document" /\ m.audio_doc)
                THEN Proceed(w, "download", "none") /\ UNCHANGED USER_SETTINGS
                ELSE Proceed(w, "answer", "unsupported") /\ UNCHANGED USER_SETTINGS
        /\ UNCHANGED <<USER_BUSY, USER_QUEUED, JOB_QUEUE, PENDING, JOB_COUNTER, wjob,
                       reply, accepted, started, finished, outcome>>

\* process_audio_job resumes from safe_download and runs to its next await.
\* download_ok, probe_ok, convert_ok, transcribe_ok: whether the collaborator
\* returned or raised (ffprobe is called outside every try); probe,
\* transcript_empty, detected: what ffprobe_duration and transcribe_audio returned
ProcessDownload(w) ==
    LET job == wjob[w]
        m   == job.message
        downloaded  == <<"download">>
        probed      == IF m.duration = 0 THEN downloaded \o <<"probe">> ELSE downloaded
        converted   == probed \o <<"convert">>
        transcribed == converted \o <<"transcribe">>
        translated  == transcribed \o <<"translate">>
    IN  /\ wpc[w] = "download"
        /\ \E download_ok \in BOOLEAN :
            IF ~download_ok
            THEN ProceedAfter(w, "answer", "download_failed", downloaded, -1)
                 /\ UNCHANGED USER_SETTINGS
            ELSE
            \* if not duration: duration = int(ffprobe_duration(raw_path))
            \E probe_ok \in (IF m.duration = 0 THEN BOOLEAN ELSE {TRUE}) :
            IF ~probe_ok
            THEN ProceedAfter(w, "except", "probe_raised", probed, -1)
                 /\ UNCHANGED USER_SETTINGS
            ELSE
            \E probe \in (IF m.duration = 0 THEN ProbedTenths ELSE {-1}) :
            LET duration == IF m.duration = 0 THEN int_seconds(probe) ELSE m.duration IN
            IF duration # 0 /\ duration > AUDIO_LIMIT_SEC
            THEN ProceedAfter(w, "answer", "audio_limit", probed, probe)
                 /\ UNCHANGED USER_SETTINGS
            ELSE
            \E convert_ok \in BOOLEAN :
            IF ~convert_ok
            THEN ProceedAfter(w, "answer", "convert_failed", converted, probe)
                 /\ UNCHANGED USER_SETTINGS
            ELSE
            \E transcribe_ok \in BOOLEAN :
            IF ~transcribe_ok
            THEN ProceedAfter(w, "answer", "transcribe_failed", transcribed, probe)
                 /\ UNCHANGED USER_SETTINGS
            ELSE
            \E transcript_empty \in BOOLEAN :
            IF transcript_empty
            THEN ProceedAfter(w, "answer", "empty_transcript", transcribed, probe)
                 /\ UNCHANGED USER_SETTINGS
            ELSE
            \E detected \in transcribe_langs(wloc[w].src), translate_ok \in BOOLEAN :
                LET a == audio_target(detected, wloc[w].configured_dst)
                    t == translate_text("transcript", detected, a.effective_dst,
                                        translate_ok)
                IN  /\ USER_SETTINGS' =
                           switch_dst(USER_SETTINGS, job.user_id,
                                      wloc[w].configured_dst, a.effective_dst)
                    /\ IF t.raised
                       THEN TranslateRaised(w, translated, probe)
                       ELSE Compose(w, "audio_done", detected, a.effective_dst,
                                    a.lang_was_switched, t.status, t.text, translated,
                                    probe)
        /\ UNCHANGED <<USER_BUSY, USER_QUEUED, JOB_QUEUE, PENDING, JOB_COUNTER, wjob,
                       reply, accepted, started, finished, outcome>>

\* the executor's last message.answer returns, process_job returns and the
\* worker runs its finally block; or the answer raises, and the worker's
\* except block suspends in its own message.answer
ProcessAnswer(w) ==
    /\ wpc[w] = "answer"
    /\ \E sent \in BOOLEAN :
        IF sent
        THEN Finally(w) /\ outcome' = IF JOB_QUEUE = <<>> THEN "returned" ELSE "none"
        ELSE /\ Proceed(w, "except", "answer_raised")
             /\ UNCHANGED <<USER_BUSY, USER_QUEUED, JOB_QUEUE, PENDING, wjob,
                            started, finished, outcome>>
    /\ UNCHANGED <<USER_SETTINGS, JOB_COUNTER, reply, accepted>>

\* mutant of WorkerExcept: the cleanup is not in a finally block, so the
\* except path goes back to JOB_QUEUE.get() without it
WorkerExcept_no_cleanup(w) ==
    /\ wpc[w] = "except"
    /\ finished' = Append(finished, wjob[w].job_id)
    /\ outcome' = IF JOB_QUEUE = <<>> THEN "raised" ELSE "none"
    /\ IF JOB_QUEUE = <<>>
       THEN /\ wpc' = [wpc EXCEPT ![w] = "get"]
            /\ wjob' = [wjob EXCEPT ![w] = NoJob]
            /\ wloc' = [wloc EXCEPT ![w] = NoLocals]
            /\ UNCHANGED <<USER_BUSY, JOB_QUEUE, USER_QUEUED, started>>
       ELSE Dequeue(w, USER_BUSY)
    /\ UNCHANGED <<USER_SETTINGS, PENDING, JOB_COUNTER, reply, accepted>>

\* mutant of WorkerExcept: the try/except is around the loop, not inside it,
\* so an exception of process_job ends the worker after its cleanup
WorkerExcept_exits(w) ==
    /\ wpc[w] = "except"
    /\ PENDING' = remove_job_from_queue(PENDING, wjob[w].job_id)
    /\ USER_BUSY' = BusyAtCleanup(USER_BUSY, wjob[w].user_id)
    /\ finished' = Append(finished, wjob[w].job_id)
    /\ outcome' = "raised"
    /\ wpc' = [wpc EXCEPT ![w] = "exited"]
    /\ wjob' = [wjob EXCEPT ![w] = NoJob]
    /\ wloc' = [wloc EXCEPT ![w] = NoLocals]
    /\ UNCHANGED <<USER_SETTINGS, USER_QUEUED, JOB_QUEUE, JOB_COUNTER, reply,
                   accepted, started>>

\* except Exception: the error answer returns, or raises and is swallowed;
\* either way the finally block runs
WorkerExcept(w) ==
    /\ wpc[w] = "except"
    /\ \E notified \in BOOLEAN : Finally(w)
    /\ outcome' = IF JOB_QUEUE = <<>> THEN "raised" ELSE "none"
    /\ UNCHANGED <<USER_SETTINGS, JOB_COUNTER, reply, accepted>>

\* ---------------------------------------------------------------- Next
Submit ==
    /\ JOB_COUNTER < MaxJobs
    /\ \E uid \in Users, message \in Messages : handle_any_message(uid, message)

Next ==
    \/ Submit
    \/ \E w \in Workers : WorkerGet(w)
    \/ \E w \in Workers : ProcessStart(w)
    \/ \E w \in Workers : ProcessDownload(w)
    \/ \E w \in Workers : ProcessAnswer(w)
    \/ \E w \in Workers : WorkerExcept(w)

Spec == Init /\ [][Next]_vars

\* a step of the worker task
WorkerStep ==
    \E w \in Workers :
        \/ WorkerGet(w)
        \/ ProcessStart(w)
        \/ ProcessDownload(w)
        \/ ProcessAnswer(w)
        \/ WorkerExcept(w)

\* The event loop resumes a task whose await has completed, and every await
\* of the worker completes: get() once the queue holds a job, and the
\* collaborators (Telegram, ffmpeg, Whisper, the translator) by returning or
\* raising.
SubmitFair ==
    /\ JOB_COUNTER < MaxFairJobs
    /\ \E uid \in Users, message \in Messages : handle_any_message(uid, message)

NextFair == SubmitFair \/ WorkerStep

FairSpec == Init /\ [][NextFair]_vars /\ WF_vars(WorkerStep)

\* ---------------------------------- the executor under every setting
\* One user has picked a source and a target language (cb_pick, cb_swap_langs)
\* and sent one message, which the handler has accepted; the worker executes it.

\* codes of config.LANGS; "de" stands for every code that is neither ru nor en
ExecSrcLangs == {"auto", "en", "ru", "de"}

\* cb_pick and cb_swap_langs never store "auto" as the target
ExecDstLangs == {"en", "ru", "de"}

ExecMessages ==
    { Text(3, 3, FALSE, FALSE),
      Text(3, 3, FALSE, TRUE),
      Media("voice", 10, FALSE),
      Media("voice", AUDIO_LIMIT_SEC + 1, FALSE),
      Media("document", 0, TRUE) }

InitExec ==
    \E src \in ExecSrcLangs, dst \in ExecDstLangs, message \in ExecMessages :
        LET e == enqueue_job(0, <<>>, <<>>, 1, message)
        IN  /\ USER_SETTINGS = [u \in Users |-> IF u = 1 THEN [src |-> src, dst |-> dst]
                                                         ELSE DefaultSettings]
            /\ USER_BUSY = [u \in Users |-> FALSE]
            /\ USER_QUEUED = [u \in Users |-> u = 1]
            /\ JOB_QUEUE = e.queue
            /\ PENDING = e.pending
            /\ JOB_COUNTER = e.counter
            /\ wpc = [w \in Workers |-> "get"]
            /\ wjob = [w \in Workers |-> NoJob]
            /\ wloc = [w \in Workers |-> NoLocals]
            /\ reply = [kind |-> "Accepted", uid |-> 1, job_id |-> e.job_id,
                        pos |-> e.pos, depth |-> Len(e.pending), over_limit |-> FALSE]
            /\ accepted = <<e.job_id>>
            /\ started = <<>>
            /\ finished = <<>>
            /\ outcome = "none"

\* the users who press the language buttons, the codes a pick can carry
\* (a subset of LANGS with "auto") and the two kinds of pick
PickUsers == {1, 2}

PickCodes == {"auto", "en", "ru", "de"}

PickKinds == {"src", "dst"}

\* mutant of swap_langs: the languages are exchanged even when src is "auto"
swap_langs_unguarded(settings) == [src |-> settings.dst, dst |-> settings.src]

\* the body of cb_swap_langs: with src "auto" nothing is exchanged,
\* otherwise src and dst change places
swap_langs(settings) ==
    IF settings.src = "auto"
    THEN [settings EXCEPT !.dst = settings.dst]
    ELSE [src |-> settings.dst, dst |-> settings.src]

\* the body of cb_pick: a source pick stores the code, a target pick stores
\* it unless it is "auto"
pick(settings, kind, code) ==
    IF kind = "src"
    THEN [settings EXCEPT !.src = code]
    ELSE [settings EXCEPT !.dst = IF code # "auto" THEN code ELSE settings.dst]

\* cb_swap_langs up to its first await
cb_swap_langs(uid) ==
    /\ USER_SETTINGS' = [USER_SETTINGS EXCEPT ![uid] = swap_langs(USER_SETTINGS[uid])]
    /\ UNCHANGED <<USER_BUSY, USER_QUEUED, JOB_QUEUE, PENDING, JOB_COUNTER, wpc, wjob,
                   wloc, reply, accepted, started, finished, outcome>>

\* cb_pick up to its first await
cb_pick(uid, kind, code) ==
    /\ USER_SETTINGS' = [USER_SETTINGS EXCEPT ![uid] = pick(USER_SETTINGS[uid], kind, code)]
    /\ UNCHANGED <<USER_BUSY, USER_QUEUED, JOB_QUEUE, PENDING, JOB_COUNTER, wpc, wjob,
                   wloc, reply, accepted, started, finished, outcome>>

SwapStep == \E uid \in PickUsers : cb_swap_langs(uid)

PickStep == \E uid \in PickUsers, kind \in PickKinds, code \in PickCodes : cb_pick(uid, kind, code)

NextExec == WorkerStep \/ SwapStep \/ PickStep

SpecExec == InitExec /\ [][NextExec]_vars

\* ------------------------------------- the queue operations on their own
\* remove_job_from_queue and queue_position applied to every PENDING the
\* program can hold as far as these two functions can tell: a list of jobs
\* with distinct ids.  (The worker itself only ever removes the job it holds.)

OpJob(job_id) == Job(job_id, ((job_id - 1) % NumUsers) + 1, Text(3, 3, FALSE, FALSE))

OpLists ==
    LET IdLists == UNION {[1..n -> 1..MaxOpId] : n \in 0..MaxOpId}
    IN  { [i \in 1..Len(ids) |-> OpJob(ids[i])] :
            ids \in {l \in IdLists : \A i, k \in 1..Len(l) : l[i] = l[k] => i = k} }

InitQueueOps ==
    /\ PENDING \in OpLists
    /\ USER_SETTINGS = [u \in Users |-> DefaultSettings]
    /\ USER_BUSY = [u \in Users |-> FALSE]
    /\ USER_QUEUED = [u \in Users |-> FALSE]
    /\ JOB_QUEUE = <<>>
    /\ JOB_COUNTER = MaxOpId
    /\ wpc = [w \in Workers |-> "get"]
    /\ wjob = [w \in Workers |-> NoJob]
    /\ wloc = [w \in Workers |-> NoLocals]
    /\ reply = NoReply
    /\ accepted = <<>>
    /\ started = <<>>
    /\ finished = <<>>
    /\ outcome = "none"

\* await remove_job_from_queue(job_id), then queue_position(job_id).  reply
\* records the call: job_id, the length of PENDING before it (depth) and what
\* queue_position returns after it (pos).
RemoveOp ==
    \E job_id \in 1..MaxOpId :
        /\ PENDING' = remove_job_from_queue(PENDING, job_id)
        /\ reply' = [NoReply EXCEPT !.kind = "Removed", !.job_id = job_id,
                                    !.depth = Len(PENDING),
                                    !.pos = queue_position(PENDING', job_id)]
        /\ UNCHANGED <<USER_SETTINGS, USER_BUSY, USER_QUEUED, JOB_QUEUE, JOB_COUNTER,
                       wpc, wjob, wloc, accepted, started, finished, outcome>>

\* the lookup handle_any_message makes for a user whose flag is set: the
\* search for the user's job in PENDING and the answer built from it
LookupOp ==
    \E uid \in Users :
        /\ reply' = already_active_reply(PENDING, uid, Text(3, 3, FALSE, FALSE))
        /\ UNCHANGED <<USER_SETTINGS, USER_BUSY, USER_QUEUED, JOB_QUEUE, PENDING,
                       JOB_COUNTER, wpc, wjob, wloc, accepted, started, finished, outcome>>

NextQueueOps == RemoveOp \/ LookupOp

SpecQueueOps == InitQueueOps /\ [][NextQueueOps]_vars

\* =============================================================== claims

JobIds(seq) == {seq[i].job_id : i \in 1..Len(seq)}

JobsOf(seq, uid) == {i \in 1..Len(seq) : seq[i].user_id = uid}

\* the worker tasks that hold a dequeued job (between get() and the end of finally)
Executing == {w \in Workers : wpc[w] # "get"}

\* C1: at most one job is being executed in every reachable state, and a job
\* is dequeued for execution only after every job dequeued before it has been
\* executed and cleaned up.
C1_AtMostOneExecuting ==
    /\ Cardinality(Executing) <= 1
    /\ Len(started) - Len(finished) \in {0, 1}
    /\ Len(started) - Len(finished) = Cardinality(Executing)

\* a job is in execution while two more users wait in the queue
C1_Witness ==
    \E w \in Workers : wpc[w] = "answer" /\ Len(JOB_QUEUE) = 2

\* C2 (state part): the order of dequeue is the order of enqueue, and the
\* accepted jobs have pairwise distinct ids.
C2_State ==
    /\ Len(started) <= Len(accepted)
    /\ started = SubSeq(accepted, 1, Len(started))
    /\ \A i, j \in 1..Len(accepted) : i # j => accepted[i] # accepted[j]
    /\ \A i, j \in 1..Len(started) : i < j => started[i] < started[j]

\* C2 (step part): a submission that is no command and over no limit, from a
\* user with neither flag set, is accepted as one new job with a fresh id.
\* (Every run of the handler leaves its user in reply.uid.)
C2_Step ==
    \A message \in Messages :
        ( /\ reply'.uid \in Users
          /\ ~USER_BUSY[reply'.uid] /\ ~USER_QUEUED[reply'.uid]
          /\ ~(message.kind = "text" /\ (message.slash \/ message.len > TEXT_LIMIT))
          /\ handle_any_message(reply'.uid, message) )
        => /\ reply'.kind = "Accepted"
           /\ reply'.job_id \notin {accepted[i] : i \in 1..Len(accepted)}
           /\ accepted' = Append(accepted, reply'.job_id)
           /\ JOB_QUEUE' = Append(JOB_QUEUE, Job(reply'.job_id, reply'.uid, message))

\* C2: N submissions of N distinct idle users give N jobs with N distinct
\* ids, and the worker dequeues them in the order of enqueue (ascending id).
C2_AllAcceptedFifo == [](C2_State) /\ [][C2_Step]_vars

\* three distinct users have a job pending at once and the first is dequeued
C2_Witness ==
    /\ Len(PENDING) = 3
    /\ Cardinality({PENDING[i].user_id : i \in 1..3}) = 3
    /\ started = <<1>>

\* C3: a step taken while a user's busy or queued flag is set accepts no job
\* of that user, and the PendingList never holds two jobs of one user.
C3_Step ==
    \A uid \in Users :
        (USER_BUSY[uid] \/ USER_QUEUED[uid])
        => {PENDING'[i].job_id : i \in JobsOf(PENDING', uid)}
               \subseteq {PENDING[i].job_id : i \in JobsOf(PENDING, uid)}

C3_OneJobPerUser ==
    /\ [](\A uid \in Users : Cardinality(JobsOf(PENDING, uid)) <= 1)
    /\ [][C3_Step]_vars

\* a user with a job in the PendingList submitted again and was turned away
C3_Witness ==
    /\ reply.kind = "AlreadyActive"
    /\ JobsOf(PENDING, reply.uid) # {}
    /\ Len(finished) >= 1

\* C4: no user is marked busy and queued at once.
C4_BusyXorQueued ==
    \A uid \in Users : ~(USER_BUSY[uid] /\ USER_QUEUED[uid])

\* one user's job is executing while another user's job waits
C4_Witness ==
    \E u, v \in Users : USER_BUSY[u] /\ ~USER_QUEUED[u] /\ USER_QUEUED[v]

\* C5: a user with neither flag set has no job in the PendingList, in the
\* consumption queue or in the worker's hands.
C5_IdleHasNoJob ==
    \A uid \in Users :
        (~USER_BUSY[uid] /\ ~USER_QUEUED[uid])
        => /\ JobsOf(PENDING, uid) = {}
           /\ JobsOf(JOB_QUEUE, uid) = {}
           /\ \A w \in Executing : wjob[w].user_id # uid

\* a user whose job has been executed (it switched the user's target language)
\* and cleaned up is idle while another user's job is still outstanding
C5_Witness ==
    \E uid \in Users :
        /\ ~USER_BUSY[uid] /\ ~USER_QUEUED[uid]
        /\ USER_SETTINGS[uid].dst = "ru"
        /\ Len(PENDING) >= 1

\* C6 as stated: the PendingList equals the contents of the consumption
\* queue, in the same order and of the same length, in every reachable state.
C6_PendingEqualsQueue == PENDING = JOB_QUEUE

\* C6 as amended: the PendingList is the job the worker holds, if it holds
\* one, followed by the contents of the consumption queue in the same order;
\* the two are equal exactly while no job is being executed.
C6_PendingIsHeldThenQueue ==
    IF Executing = {}
    THEN PENDING = JOB_QUEUE
    ELSE \E w \in Executing : PENDING = <<wjob[w]>> \o JOB_QUEUE

\* a job is being executed while another waits: PENDING is one longer than the queue
C6_Witness ==
    /\ Executing # {}
    /\ Len(JOB_QUEUE) >= 1
    /\ Len(PENDING) = Len(JOB_QUEUE) + 1

\* C7 (state part): the PendingList holds exactly the accepted jobs that the
\* worker has not finished, the one in execution included.
C7_State ==
    /\ JobIds(PENDING) = {accepted[i] : i \in 1..Len(accepted)}
                            \ {finished[i] : i \in 1..Len(finished)}
    /\ \A w \in Executing : wjob[w].job_id \in JobIds(PENDING)

\* C7 (step part): Depth() never drops by more than one; it drops exactly in
\* the steps in which the worker finishes a job, and what goes is that job; a
\* dequeue alone leaves the PendingList as it is.
C7_Step ==
    /\ Len(PENDING') >= Len(PENDING) - 1
    /\ (Len(PENDING') < Len(PENDING)) <=> (finished' # finished)
    /\ finished' # finished =>
          \E w \in Executing :
              /\ finished' = Append(finished, wjob[w].job_id)
              /\ PENDING' = SelectSeq(PENDING, LAMBDA j : j.job_id # wjob[w].job_id)
              /\ Len(PENDING') = Len(PENDING) - 1
    /\ (started' # started /\ finished' = finished) => PENDING' = PENDING

\* C7: a job stays in the PendingList until the worker has finished it; the
\* depth drops by one at each completion and never at a dequeue.
C7_DepthDropsAtCompletion == [](C7_State) /\ [][C7_Step]_vars

\* the third job was accepted at depth 3, nothing was submitted after it, and
\* the three completions have brought the depth to 0
C7_Witness ==
    /\ reply.kind = "Accepted" /\ reply.job_id = 3 /\ reply.depth = 3
    /\ finished = <<1, 2, 3>>
    /\ PENDING = <<>>

\* C8: the job in execution is at position 1 of the PendingList.
C8_ExecutingIsFirst ==
    \A w \in Executing : queue_position(PENDING, wjob[w].job_id) = 1

\* the second job is in execution, at the head of a PendingList of two
C8_Witness ==
    \E w \in Executing :
        /\ wjob[w].job_id = 2
        /\ Len(PENDING) = 2
        /\ queue_position(PENDING, 2) = 1

\* C9: the position of a job that stays pending never grows, and it shrinks
\* by at least one in every step in which a job ahead of it is finished.
C9_Step ==
    \A i \in 1..Len(PENDING) :
        LET j  == PENDING[i].job_id
            p  == queue_position(PENDING, j)
            p2 == queue_position(PENDING', j)
        IN  p2 # -1 =>
              /\ p2 <= p
              /\ ( /\ finished' # finished
                   /\ \E k \in 1..Len(PENDING) :
                         /\ PENDING[k].job_id = finished'[Len(finished')]
                         /\ k < i )
                 => p2 <= p - 1

C9_PositionDecreases == [][C9_Step]_vars

\* job 1 is finished, job 2 has moved up to position 1 and a later
\* submission stands behind it
C9_Witness ==
    /\ finished = <<1>>
    /\ Len(PENDING) = 2
    /\ queue_position(PENDING, 2) = 1
    /\ queue_position(PENDING, 3) = 2

\* C10: the ids assigned so far are 1, 2, 3, ... in the order of assignment:
\* the first is 1, each is greater than all before it, none is assigned twice.
C10_IdsCountUp ==
    /\ \A i \in 1..Len(accepted) : accepted[i] = i
    /\ JOB_COUNTER = Len(accepted)
    /\ \A i \in 1..Len(PENDING) : PENDING[i].job_id \in 1..JOB_COUNTER

\* the third id is assigned after the first two jobs have been removed
C10_Witness ==
    /\ reply.kind = "Accepted" /\ reply.job_id = 3 /\ reply.depth = 1
    /\ finished = <<1, 2>>

\* ---------------------------------------------------------------- C11
\* the flags as the handler's admission check reads them
HasActiveJob(uid) == USER_BUSY[uid] \/ USER_QUEUED[uid]

\* the two "you already have a job" answers of handlers.py 184-196
AlreadyActiveKinds == {"AlreadyActive", "AlreadyProcessing"}

\* a step of handle_any_message on a message that is not a command: the
\* worker has not moved and the handler has answered
HandlerStep ==
    /\ <<wpc, wjob, wloc>>' = <<wpc, wjob, wloc>>
    /\ reply'.uid \in Users
    /\ reply'.kind \in AlreadyActiveKinds \cup {"LimitExceeded", "Accepted"}

C11_Step ==
    (HandlerStep /\ HasActiveJob(reply'.uid))
    => /\ reply'.kind \in AlreadyActiveKinds
       /\ UNCHANGED <<JOB_COUNTER, PENDING, JOB_QUEUE, USER_BUSY, USER_QUEUED,
                      accepted>>

\* C11: a message from a user whose busy or queued flag is set is answered
\* "already active" and the handler changes nothing: the job counter, the
\* pending list (so its depth), the queue and every user's flags stay as they
\* were, and no job is accepted.
C11_ActiveRejectionChangesNothing == [][C11_Step]_vars

\* a busy user was turned away while another user's job waits in the queue
C11_Witness ==
    /\ reply.kind = "AlreadyActive"
    /\ USER_BUSY[reply.uid]
    /\ Len(JOB_QUEUE) >= 1

\* ---------------------------------------------------------------- C12
C12_Step ==
    \A message \in Messages :
        ( /\ reply'.uid \in Users
          /\ ~HasActiveJob(reply'.uid)
          /\ TextTooLong(message)
          /\ handle_any_message(reply'.uid, message) )
        => /\ reply'.kind = "LimitExceeded"
           /\ UNCHANGED <<JOB_COUNTER, PENDING, JOB_QUEUE, USER_BUSY, USER_QUEUED,
                          accepted>>

\* C12: a text longer than TEXT_LIMIT from a user with no active job is
\* answered "limit exceeded" before a job id is taken: the job counter, the
\* pending list, the queue and the user's queued flag stay as they were.
C12_OverLimitRejectedBeforeId == [][C12_Step]_vars

\* an idle user's long text was turned away while jobs of others exist
C12_Witness ==
    /\ reply.kind = "LimitExceeded"
    /\ ~HasActiveJob(reply.uid)
    /\ JOB_COUNTER >= 1
    /\ Len(PENDING) >= 1

\* ---------------------------------------------------------------- C13
C13_Step ==
    HandlerStep
    => /\ HasActiveJob(reply'.uid) => reply'.kind \in AlreadyActiveKinds
       /\ (~HasActiveJob(reply'.uid) /\ reply'.over_limit)
              => reply'.kind = "LimitExceeded"
       /\ (USER_QUEUED' # USER_QUEUED \/ PENDING' # PENDING
              \/ JOB_COUNTER' # JOB_COUNTER)
              => (~HasActiveJob(reply'.uid) /\ ~reply'.over_limit)

\* C13: the handler checks busy/queued first, the text limit second, and
\* enqueues last: a user with an active job who sends a text over the limit is
\* answered "already active", not "limit exceeded"; the queued flag is set and
\* a job is enqueued only when both checks have passed.
C13_CheckOrder == [][C13_Step]_vars

\* a user with an active job sent a text over the limit and was answered
\* "already active"
C13_Witness ==
    /\ reply.kind = "AlreadyActive"
    /\ reply.over_limit
    /\ HasActiveJob(reply.uid)

\* ---------------------------------------------------------------- C14
\* the executor's answers that turn a request away for what admission could
\* already see in the message: a payload that is neither text nor audio, a
\* text over TEXT_LIMIT, a declared duration over AUDIO_LIMIT_SEC
RejectedAsInadmissible(w) ==
    \/ wloc[w].out = "unsupported"
    \/ wloc[w].out = "text_limit"
    \/ wloc[w].out = "audio_limit" /\ wjob[w].message.duration > AUDIO_LIMIT_SEC

\* C14: no job is created for a request destined for rejection: a job that
\* admission enqueued is never one the executor turns away as an unsupported
\* payload or as over a limit that the message already showed at admission.
C14_NoJobForRejectedRequest ==
    \A w \in Executing : ~RejectedAsInadmissible(w)

\* ---------------------------------------------------------------- C15
\* worker w has taken a step
WorkerMoved(w) == <<wpc[w], wjob[w], wloc[w]>>' # <<wpc[w], wjob[w], wloc[w]>>

\* the job w held is cleaned up and w is back at JOB_QUEUE.get(), waiting or
\* already holding the next job
CleanedUp(w) ==
    /\ finished' = Append(finished, wjob[w].job_id)
    /\ wjob[w].job_id \notin JobIds(PENDING')
    /\ ~USER_BUSY'[wjob[w].user_id]
    /\ \/ wpc'[w] = "get" /\ wjob'[w] = NoJob
       \/ wpc'[w] = "start" /\ wjob'[w].job_id # wjob[w].job_id

C15_State ==
    /\ \A u \in Users :
          USER_BUSY[u] => \E w \in Executing : wjob[w].user_id = u
    /\ \A i \in 1..Len(finished) : finished[i] \notin JobIds(PENDING)

C15_Step ==
    \A w \in Workers :
        (wpc[w] \in {"answer", "except"} /\ WorkerMoved(w))
        => \/ wpc[w] = "answer" /\ wpc'[w] = "except" /\ wjob'[w] = wjob[w]
           \/ CleanedUp(w)

\* C15: however process_job ends (its last answer is sent, whether a result
\* or a failure message; or an exception reaches the worker's except block,
\* whose own error answer may fail too), the worker then removes the job from
\* PENDING, clears the user's busy flag and is back at JOB_QUEUE.get(); no
\* user is busy without a job being executed for them and no finished job is
\* in PENDING.
C15_CleanupWhateverOutcome == [](C15_State) /\ [][C15_Step]_vars

\* an exception reached the worker's except block, and after it the worker
\* waits in get() with PENDING empty and nobody busy
C15_Witness ==
    /\ outcome = "raised"
    /\ finished # <<>>
    /\ PENDING = <<>>
    /\ \A u \in Users : ~USER_BUSY[u]
    /\ \A w \in Workers : wpc[w] = "get"

\* ---------------------------------------------------------------- C16
NoDuplicates(seq) == \A i, k \in 1..Len(seq) : seq[i] = seq[k] => i = k

Ids(seq) == {seq[i] : i \in 1..Len(seq)}

C16_State ==
    /\ NoDuplicates(started)
    /\ Ids(started) \subseteq Ids(accepted)
    /\ Ids(finished) \subseteq Ids(started)

\* a job is cleaned up: its user has neither flag set afterwards
C16_Step ==
    \A w \in Workers :
        finished' = Append(finished, wjob[w].job_id)
        => /\ ~USER_BUSY'[wjob[w].user_id]
           /\ ~USER_QUEUED'[wjob[w].user_id]

C16_Done(j) ==
    /\ j \in Ids(started)
    /\ j \in Ids(finished)
    /\ j \notin JobIds(PENDING)
    /\ j \notin JobIds(JOB_QUEUE)

\* C16: every accepted job is executed exactly once.  No job id is dequeued
\* twice and only accepted jobs are dequeued; with a worker that is resumed
\* whenever it can run and collaborators that return, every accepted job is
\* eventually dequeued, executed and removed from PENDING; and at its removal
\* its user has busy and queued both false, so the admission check lets the
\* user's next message in.
C16_ExactlyOnce ==
    /\ [](C16_State)
    /\ [][C16_Step]_vars
    /\ \A j \in 1..MaxFairJobs : (j \in Ids(accepted)) ~> C16_Done(j)

\* a user whose earlier job was executed (it switched their target language)
\* and removed has been accepted again and is queued with the new job
C16_Witness ==
    /\ reply.kind = "Accepted"
    /\ reply.job_id \in JobIds(PENDING)
    /\ reply.job_id >= 2
    /\ USER_QUEUED[reply.uid]
    /\ USER_SETTINGS[reply.uid].dst = "ru"
    /\ Len(finished) >= 1

\* ---------------------------------------------------------------- C17
\* the places of job_id in pending, counted from 1
PlacesOf(pending, job_id) ==
    {i \in 1..Len(pending) : pending[i].job_id = job_id}

C17_Step ==
    accepted' # accepted
    => /\ reply'.kind = "Accepted"
       /\ PlacesOf(PENDING', reply'.job_id) = {reply'.pos}
       /\ reply'.pos = Len(PENDING')
       /\ reply'.pos = reply'.depth
       /\ reply'.pos >= 1

\* C17: the position enqueue_job returns to the handler is the new job's own
\* 1-based index in PENDING after the append, which is the length of PENDING
\* at that moment; it is never the not-found value and never below 1.
C17_PositionIsOwnIndex == [][C17_Step]_vars

\* a job was accepted behind two others and told position 3 of 3
C17_Witness ==
    /\ reply.kind = "Accepted"
    /\ reply.pos = 3
    /\ reply.depth = 3
    /\ Len(PENDING) = 3
    /\ PENDING[3].job_id = reply.job_id

\* ---------------------------------------------------------------- C18
\* pending without the entries whose id is job_id, the others in their order
Without(pending, job_id) == SelectSeq(pending, LAMBDA e : e.job_id # job_id)

C18_Step ==
    (reply'.kind = "Removed" /\ <<reply, PENDING>>' # <<reply, PENDING>>)
    => LET job_id == reply'.job_id
       IN  /\ reply'.pos = -1
           /\ PlacesOf(PENDING', job_id) = {}
           /\ PlacesOf(PENDING, job_id) = {} => PENDING' = PENDING
           /\ PENDING' = Without(PENDING, job_id)

\* C18: for every PENDING and job id j, after remove_job_from_queue(j)
\* queue_position(j) returns -1; removing a j that is not in PENDING leaves
\* the list as it was; and the other jobs all stay, in the same relative order.
C18_RemoveThenPosition == [][C18_Step]_vars

\* a job was removed from between two others
C18_Witness ==
    /\ reply.kind = "Removed"
    /\ reply.pos = -1
    /\ reply.depth = Len(PENDING) + 1
    /\ \E i \in 1..(Len(PENDING) - 1) :
          PENDING[i].job_id < reply.job_id /\ reply.job_id < PENDING[i + 1].job_id

\* ---------------------------------------------------------------- C19
\* the rule as the claim words it
RuleTarget(L) == IF L = "ru" THEN "en" ELSE "ru"

C19_Composed(w) ==
    wloc[w].out \in {"text_done", "audio_done"}
    => /\ wloc[w].effective_dst = RuleTarget(wloc[w].detected)
       /\ wloc[w].lang_was_switched
             <=> (wloc[w].configured_dst # wloc[w].effective_dst)

\* the text path told the language L and the audio path hearing L agree
C19_SamePaths ==
    \A L \in ExecSrcLangs \ {"auto"}, T \in ExecDstLangs, message \in ExecMessages :
        LET r == process_text_message(message, L, T, TRUE)
            a == audio_target(L, T)
        IN  /\ r.detected_lang = L
            /\ r.effective_dst = a.effective_dst
            /\ r.lang_was_switched = a.lang_was_switched

\* C19: for every detected source language L and configured target T, on the
\* text path and on the audio path, the effective target is en if L is ru and
\* ru otherwise, and the switched flag is true exactly when T differs from the
\* effective target; the two paths give the same pair for the same (L, T).
C19_AutoTargetRule ==
    /\ \A w \in Workers : C19_Composed(w)
    /\ C19_SamePaths

\* a German text with German as the configured target: the result goes to
\* Russian and the user's target is switched
C19_Witness ==
    \E w \in Workers :
        /\ wloc[w].out = "text_done"
        /\ wloc[w].detected = "de"
        /\ wloc[w].configured_dst = "de"
        /\ wloc[w].effective_dst = "ru"
        /\ wloc[w].lang_was_switched
        /\ USER_SETTINGS[wjob[w].user_id].dst = "ru"

\* ---------------------------------------------------------------- C20
\* what translate_text was given on the path of w's job
TranslateInput(w) == IF wjob[w].message.kind = "text" THEN "text" ELSE "transcript"

C20_State ==
    \A w \in Workers :
        wloc[w].translate = "failed"
        => /\ wloc[w].translated = TranslateInput(w)
           /\ \/ wpc[w] = "answer" /\ wloc[w].out \in {"text_done", "audio_done"}
              \/ wpc[w] = "except" /\ wloc[w].out = "answer_raised"

C20_Step ==
    \A w \in Workers :
        (wpc[w] = "answer" /\ wloc[w].translate = "failed" /\ WorkerMoved(w))
        => \/ CleanedUp(w) /\ (wpc'[w] = "get" => outcome' = "returned")
           \/ wpc'[w] = "except" /\ wloc'[w].out = "answer_raised"

\* C20: when the translator fails inside translate_text, translate_text
\* returns the text it was given and raises nothing; the executor goes on to
\* send the result message (not a failure message) and process_job returns
\* normally; the worker's except block is entered only if sending that result
\* message itself raises.
C20_TranslateFailureIsSuccess == [](C20_State) /\ [][C20_Step]_vars

\* the translator failed on a text job: the executor is about to send the
\* result message, which carries the original text
C20_Witness ==
    \E w \in Workers :
        /\ wpc[w] = "answer"
        /\ wloc[w].out = "text_done"
        /\ wloc[w].translate = "failed"
        /\ wloc[w].translated = "text"

\* ---------------------------------------------------------------- C21
\* what brought w into the worker's except block was a collaborator
CollaboratorRaised(w) ==
    wpc[w] = "except" /\ wloc[w].out \in {"probe_raised", "translate_raised"}

\* C21: an exception raised by a collaborator (download, duration probe,
\* conversion, transcription, translation) is caught inside the executor and
\* answered with a failure message; it never reaches the worker's except
\* block.
C21_CollaboratorFailureCaughtInExecutor ==
    \A w \in Workers : ~CollaboratorRaised(w)

\* ---------------------------------------------------------------- C22
\* an exception of message.answer has left process_job, and the worker's
\* except block is sending its own message for the same job
NotifyFailurePropagated(w) ==
    wpc[w] = "except" /\ wloc[w].out = "answer_raised"

\* C22: a failure to deliver a message to the user is never propagated and
\* never followed by another delivery attempt for the same job.
C22_NotifyFailureSwallowed ==
    \A w \in Workers : ~NotifyFailurePropagated(w)

\* ---------------------------------------------------------------- C23
\* the audio pipeline's collaborators in the order the claim gives
PipelineOrder == <<"download", "probe", "convert", "transcribe", "translate">>

PlaceInPipeline(step) == CHOOSE i \in 1..Len(PipelineOrder) : PipelineOrder[i] = step

\* steps were called in pipeline order, each at most once
InPipelineOrder(steps) ==
    \A i, k \in 1..Len(steps) :
        i < k => PlaceInPipeline(steps[i]) < PlaceInPipeline(steps[k])

Called(w) == {wloc[w].steps[i] : i \in 1..Len(wloc[w].steps)}

\* the job's duration in tenths of a second as far as it is known: declared
\* by the message, or else as ffprobe returned it (-1: not known)
KnownTenths(w) ==
    IF wjob[w].message.duration # 0
    THEN wjob[w].message.duration * 10
    ELSE wloc[w].probed

\* C23: on the audio path the collaborators are called in the order download,
\* duration probe, convert, transcribe, translate, and a job whose duration,
\* declared or probed, is over AUDIO_LIMIT_SEC is answered with the limit
\* message after the download and is never converted, transcribed or
\* translated.
C23_OverLimitNeverConverted ==
    \A w \in Executing :
        /\ InPipelineOrder(wloc[w].steps)
        /\ wloc[w].out = "audio_limit"
              => /\ wpc[w] = "answer"
                 /\ "download" \in Called(w)
                 /\ Called(w) \cap {"convert", "transcribe", "translate"} = {}
        /\ KnownTenths(w) > AUDIO_LIMIT_SEC * 10
              => Called(w) \cap {"convert", "transcribe", "translate"} = {}

\* the jobs of the PendingList that the worker has not dequeued yet
Waiting == {i \in 1..Len(PENDING) : \A w \in Executing : wjob[w] # PENDING[i]}

\* C24: every job of the PendingList that has not been dequeued belongs to a
\* user whose queued flag is set (the flag is set before the job is
\* enqueued), and the job being executed belongs to a user with busy set and
\* queued clear (the worker writes both flags in the step that dequeues).
C24_FlagsFollowTheJob ==
    /\ \A i \in Waiting : USER_QUEUED[PENDING[i].user_id]
    /\ \A w \in Executing :
          /\ USER_BUSY[wjob[w].user_id]
          /\ ~USER_QUEUED[wjob[w].user_id]

\* the worker went from one job straight to the next (cleanup and dequeue in
\* one step) while a third user's job waits
C24_Witness ==
    /\ Len(finished) >= 1
    /\ Executing # {}
    /\ Waiting # {}
    /\ \A i \in Waiting : USER_QUEUED[PENDING[i].user_id]

\* the dequeued jobs the worker has not yet removed from the PendingList
InFlight == {wjob[w] : w \in Executing}

\* C25: the PendingList has as many jobs as wait in the consumption queue,
\* plus one while the worker holds a dequeued job it has not removed yet; the
\* queue holds exactly the PendingList without that job, in the same order.
C25_PendingCountsQueuePlusInFlight ==
    /\ Len(PENDING) = Len(JOB_QUEUE) + Cardinality(InFlight)
    /\ Cardinality(InFlight) \in {0, 1}
    /\ JOB_QUEUE = SelectSeq(PENDING, LAMBDA job : job \notin InFlight)

\* a job is in flight while another waits, after an earlier job was removed
C25_Witness ==
    /\ Cardinality(InFlight) = 1
    /\ Len(JOB_QUEUE) = 1
    /\ Len(PENDING) = 2
    /\ Len(finished) >= 1

BusyUsers == {uid \in Users : USER_BUSY[uid]}

\* C26 (state part): at most one user is busy, and a busy user is the user of
\* the dequeued job the worker holds.
C26_State ==
    /\ Cardinality(BusyUsers) <= 1
    /\ \A uid \in BusyUsers : \E w \in Executing : wjob[w].user_id = uid

\* C26 (step part): a busy flag changes only in the worker's dequeue or in
\* its cleanup; a step of the message handler leaves every busy flag as it was.
C26_Step ==
    /\ USER_BUSY' # USER_BUSY => (started' # started \/ finished' # finished)
    /\ HandlerStep => UNCHANGED USER_BUSY

\* C26: at most one user is busy, a user is busy only between the dequeue of
\* that user's job and the end of its cleanup, and no handler sets a busy flag.
C26_BusyOnlyWhileHeld == [](C26_State) /\ [][C26_Step]_vars

\* after one job was cleaned up, another user's job is held and its user is
\* busy, and the handler has since accepted a job of a third user
C26_Witness ==
    /\ Len(finished) >= 1
    /\ Cardinality(BusyUsers) = 1
    /\ reply.kind = "Accepted"
    /\ reply.uid \notin BusyUsers
    /\ reply.job_id \in JobIds(JOB_QUEUE)

\* a step in which the handler answers a user whose flag is set
RejectedActive ==
    /\ reply'.kind \in AlreadyActiveKinds
    /\ reply' # reply
    /\ UNCHANGED PENDING

C27_Step ==
    RejectedActive
    => IF JobsOf(PENDING, reply'.uid) # {}
       THEN /\ reply'.kind = "AlreadyActive"
            /\ reply'.depth = Len(PENDING)
            /\ reply'.pos # -1
            /\ reply'.pos >= 1
            /\ reply'.pos <= reply'.depth
            /\ PENDING[reply'.pos].user_id = reply'.uid
            /\ PENDING[reply'.pos].job_id = reply'.job_id
       ELSE /\ reply'.kind = "AlreadyProcessing"
            /\ reply'.pos = NoReply.pos
            /\ reply'.depth = NoReply.depth

\* C27: when the handler rejects a submission because the user already has
\* a job and finds that job in the PendingList, the position it reports lies
\* between 1 and the PendingList length it reports and is never -1, whatever
\* removals came before; when it does not find the job it gives the generic
\* "already processing" answer with no position.
C27_ReportedPositionInRange == [][C27_Step]_vars

\* the handler found a user's job behind another job and reported its
\* position in a PendingList that is not full
C27_Witness ==
    /\ reply.kind = "AlreadyActive"
    /\ reply.pos >= 2
    /\ reply.pos <= reply.depth
    /\ reply.depth < MaxOpId
    /\ Len(PENDING) = reply.depth

\* the ways a job ends in a failure the executor handles itself
HandledFailures ==
    {"text_limit", "unsupported", "download_failed", "audio_limit", "convert_failed",
     "transcribe_failed", "empty_transcript"}

\* the executor of w has just translated and goes on to send the result
Translated(w) ==
    /\ wpc[w] \in {"start", "download"}
    /\ wpc'[w] = "answer"
    /\ wloc'[w].out \in {"text_done", "audio_done"}

C28_Step ==
    \A w \in Workers :
        WorkerMoved(w)
        => /\ wloc'[w].out \in HandledFailures => UNCHANGED USER_SETTINGS
           /\ ~Translated(w) => UNCHANGED USER_SETTINGS
           /\ Translated(w)
                => USER_SETTINGS' =
                       IF wloc'[w].lang_was_switched
                       THEN [USER_SETTINGS EXCEPT
                                ![wjob[w].user_id].dst = wloc'[w].effective_dst]
                       ELSE USER_SETTINGS

\* C28: a job that ends in a handled failure leaves the user's source and
\* target language as they were; the executor overwrites the target language
\* with the effective target only in the step that translates, and only
\* when the language was switched.
C28_FailureKeepsSettings == [][C28_Step]_vars

\* a job read with source "auto" ended in an empty transcript after the user
\* had picked another target, and the pick is still in the settings
C28_Witness ==
    \E w \in Executing :
        /\ wloc[w].out = "empty_transcript"
        /\ wloc[w].src = "auto"
        /\ USER_SETTINGS[wjob[w].user_id].dst # wloc[w].configured_dst

\* C29: the target language of every user's settings is never "auto": it
\* starts as a concrete language, and no language pick, swap or job execution
\* with its automatic switch stores "auto" in it.
C29_TargetNeverAuto ==
    \A uid \in Users : USER_SETTINGS[uid].dst # "auto"

\* a job of user 1 has been executed with source "auto" and left the target
\* "ru", and user 2 has picked and swapped languages so that the source is no
\* longer "auto" and the target no longer "en"
C29_Witness ==
    /\ Len(finished) = 1
    /\ USER_SETTINGS[1] = [src |-> "auto", dst |-> "ru"]
    /\ USER_SETTINGS[2] = [src |-> "en", dst |-> "de"]

====
